---- MODULE Spec2Model ----
(***************************************************************************)
(* The CSS selector builder of src/src/06-objects-tasks.js: class Selector *)
(* (lines 122-201) and the facade object cssSelectorBuilder (lines         *)
(* 203-235).                                                               *)
(*                                                                         *)
(* A value that may be undefined is a tagged record, so that `undefined`   *)
(* and the empty string are different values.                              *)
(***************************************************************************)
EXTENDS Integers, Sequences, FiniteSets

(***************************************************************************)
(* Bounds of the model and the inputs the calls are drawn from.            *)
(* MaxFootprint bounds Footprint, the size of the live instances: a call   *)
(* that would create an instance or extend a template past it is not       *)
(* made; calls that throw and stringify are always possible.               *)
(***************************************************************************)
MaxFootprint == 6

Values == {"a"}
Combinators == {" ", "+"}
ArgLists == {<<"a", "b">>}

(***************************************************************************)
(* JavaScript values.                                                      *)
(***************************************************************************)
Undefined == [t |-> "undefined", s |-> ""]
Str(s) == [t |-> "string", s |-> s]

\* String(v), as a template literal or `+=` converts its operand.
ToString(v) == IF v.t = "undefined"
               THEN "undefined"
               ELSE v.s

\* The member `new Set([startSelector])` holds when startSelector is undefined.
NoSelector == "undefined"

\* Array.prototype.indexOf, 0-based, -1 when absent.
indexOf(arr, x) ==
    IF \E i \in 1..Len(arr) : arr[i] = x
    THEN (CHOOSE i \in 1..Len(arr) :
              arr[i] = x /\ \A j \in 1..(i - 1) : arr[j] # x) - 1
    ELSE -1

\* Array.prototype.slice(begin, end) for 0 <= begin, end <= length.
slice(arr, begin, end) == SubSeq(arr, begin + 1, end)

\* Array.prototype.join of an array of strings.
RECURSIVE join(_, _)
join(arr, sep) ==
    IF Len(arr) = 0 THEN ""
    ELSE IF Len(arr) = 1 THEN arr[1]
    ELSE arr[1] \o sep \o join(Tail(arr), sep)

(***************************************************************************)
(* class Selector                                                          *)
(***************************************************************************)
\* this.order: the same array in every instance, never written again.
order == <<"element", "id", "class", "attr", "pseudoClass", "pseudoElement">>

Selector(start, startSelector) ==
    [template |-> start, selectors |-> {startSelector}]

DuplicateFragmentError ==
    "Element, id and pseudo-element should not occur more then one time inside the selector"
OrderViolationError ==
    "Selector parts should be arranged in the following order: element, id, class, attribute, pseudo-class, pseudo-element"
NoError == "none"

\* How a method call ends: `return this`, or a throw that leaves `this` as
\* the statements before the throw made it.
Return(self) == [self |-> self, error |-> NoError]
Throw(self, message) == [self |-> self, error |-> message]

\* Variant: the slice starts at the kind itself, so a repeated kind counts
\* as a later one.
orderIsCorrect_inclusive(self, currentSelector) ==
    LET indexInOrder == indexOf(order, currentSelector)
        nextSelectors == slice(order, indexInOrder, Len(order))
    IN  ~ \E i \in 1..Len(nextSelectors) : nextSelectors[i] \in self.selectors

orderIsCorrect(self, currentSelector) ==
    LET indexInOrder == indexOf(order, currentSelector)
        nextSelectors == slice(order, indexInOrder + 1, Len(order))
    IN  ~ \E i \in 1..Len(nextSelectors) : nextSelectors[i] \in self.selectors

element(self, value) ==
    IF "element" \in self.selectors
    THEN Throw(self, DuplicateFragmentError)
    ELSE IF ~ orderIsCorrect(self, "element")
    THEN Throw(self, OrderViolationError)
    ELSE Return([self EXCEPT !.template = Str(ToString(@) \o value)])

\* Variant: the order check comes before the duplicate check.
id_orderFirst(self, value) ==
    IF ~ orderIsCorrect(self, "id")
    THEN Throw(self, OrderViolationError)
    ELSE IF "id" \in self.selectors
    THEN Throw(self, DuplicateFragmentError)
    ELSE Return([self EXCEPT !.selectors = @ \cup {"id"},
                             !.template = Str(ToString(@) \o "#" \o value)])

\* Variant: id is not added to `selectors`.
id_unrecorded(self, value) ==
    IF "id" \in self.selectors
    THEN Throw(self, DuplicateFragmentError)
    ELSE IF ~ orderIsCorrect(self, "id")
    THEN Throw(self, OrderViolationError)
    ELSE Return([self EXCEPT !.template = Str(ToString(@) \o "#" \o value)])

id(self, value) ==
    IF "id" \in self.selectors
    THEN Throw(self, DuplicateFragmentError)
    ELSE LET added == [self EXCEPT !.selectors = @ \cup {"id"}]
         IN  IF ~ orderIsCorrect(added, "id")
             THEN Throw(added, OrderViolationError)
             ELSE Return([added EXCEPT
                              !.template = Str(ToString(@) \o "#" \o value)])

class(self, value) ==
    IF ~ orderIsCorrect(self, "class")
    THEN Throw(self, OrderViolationError)
    ELSE Return([self EXCEPT !.template = Str(ToString(@) \o "." \o value)])

\* Variant: the closing bracket is missing.
attr_unclosed(self, value) ==
    IF ~ orderIsCorrect(self, "attr")
    THEN Throw(self, OrderViolationError)
    ELSE Return([self EXCEPT !.template = Str(ToString(@) \o "[" \o value)])

attr(self, value) ==
    IF ~ orderIsCorrect(self, "attr")
    THEN Throw(self, OrderViolationError)
    ELSE Return([self EXCEPT
                     !.template = Str(ToString(@) \o "[" \o value \o "]")])

pseudoClass(self, value) ==
    IF ~ orderIsCorrect(self, "pseudoClass")
    THEN Throw(self, OrderViolationError)
    ELSE Return([self EXCEPT !.template = Str(ToString(@) \o ":" \o value)])

\* Variant: pseudoElement is not added to `selectors`.
pseudoElement_unrecorded(self, value) ==
    IF "pseudoElement" \in self.selectors
    THEN Throw(self, DuplicateFragmentError)
    ELSE Return([self EXCEPT !.template = Str(ToString(@) \o "::" \o value)])

pseudoElement(self, value) ==
    IF "pseudoElement" \in self.selectors
    THEN Throw(self, DuplicateFragmentError)
    ELSE LET added == [self EXCEPT !.selectors = @ \cup {"pseudoElement"}]
         IN  Return([added EXCEPT
                         !.template = Str(ToString(@) \o "::" \o value)])

combine(self, args) ==
    Return([self EXCEPT !.template = Str(join(args, " "))])

stringify(self) == self.template

\* The call self[kind](value) of one of the six per-kind methods.
Apply(self, kind, value) ==
    CASE kind = "element" -> element(self, value)
      [] kind = "id" -> id(self, value)
      [] kind = "class" -> class(self, value)
      [] kind = "attr" -> attr(self, value)
      [] kind = "pseudoClass" -> pseudoClass(self, value)
      [] kind = "pseudoElement" -> pseudoElement(self, value)

(***************************************************************************)
(* const cssSelectorBuilder.  combine reads its operands through the       *)
(* store of live instances `objs` and returns the store with the new       *)
(* instance added at the end.                                              *)
(***************************************************************************)
cssSelectorBuilder_element(value) == Selector(Str(value), "element")

cssSelectorBuilder_id(value) == Selector(Str("#" \o value), "id")

cssSelectorBuilder_class(value) == Selector(Str("." \o value), "class")

cssSelectorBuilder_attr(value) ==
    Selector(Str("[" \o value \o "]"), "attr")

cssSelectorBuilder_pseudoClass(value) ==
    Selector(Str(":" \o value), "pseudoClass")

cssSelectorBuilder_pseudoElement(value) ==
    Selector(Str("::" \o value), "pseudoElement")

\* Variant: the new instance starts with the kinds its operands had used.
cssSelectorBuilder_combine_inheriting(objs, selector1, combinator, selector2) ==
    Append(objs,
           [template |-> Str(ToString(objs[selector1].template) \o " "
                             \o combinator \o " "
                             \o ToString(objs[selector2].template)),
            selectors |-> objs[selector1].selectors
                              \cup objs[selector2].selectors])

\* Variant: the combinator is not padded with spaces.
cssSelectorBuilder_combine_unpadded(objs, selector1, combinator, selector2) ==
    Append(objs,
           Selector(Str(ToString(objs[selector1].template) \o combinator
                        \o ToString(objs[selector2].template)),
                    NoSelector))

\* Variant: the combined text is also written into the first operand.
cssSelectorBuilder_combine_inPlace(objs, selector1, combinator, selector2) ==
    LET text == Str(ToString(objs[selector1].template) \o " " \o combinator
                    \o " " \o ToString(objs[selector2].template))
    IN  Append([objs EXCEPT ![selector1].template = text],
               Selector(text, NoSelector))

cssSelectorBuilder_combine(objs, selector1, combinator, selector2) ==
    Append(objs,
           Selector(Str(ToString(objs[selector1].template) \o " "
                        \o combinator \o " "
                        \o ToString(objs[selector2].template)),
                    NoSelector))

cssSelectorBuilder_stringify == Selector(Undefined, NoSelector).template

(***************************************************************************)
(* State.                                                                  *)
(*   heap    the live Selector instances, in creation order                *)
(*   hist    for each instance, what was done to it: how it was created,   *)
(*           the fragments its methods accepted, in call order, and        *)
(*           how many strings its combine method has joined into the text  *)
(*   result  the last call and how it ended                                *)
(*   before  heap and hist as they were when the last call was made        *)
(***************************************************************************)
VARIABLES heap, hist, result, before

vars == <<heap, hist, result, before>>

Now == [heap |-> heap, hist |-> hist]

NoCall == [op |-> "none", kind |-> "", target |-> 0, error |-> NoError,
           ret |-> Undefined, a |-> 0, b |-> 0, token |-> ""]

\* What the live instances were given: two fields each (template, selectors),
\* one fragment for every accepted per-kind call and the strings their
\* combine method joined.
RECURSIVE Footprint(_)
Footprint(h) ==
    IF h = <<>> THEN 0
    ELSE Cardinality({"template", "selectors"}) + Len(Head(h).log)
         + Head(h).joined + Footprint(Tail(h))

Init ==
    /\ heap = <<>>
    /\ hist = <<>>
    /\ result = NoCall
    /\ before = [heap |-> <<>>, hist |-> <<>>]

\* A facade per-kind call: `created` joins the heap.
Create(kind, value, created) ==
    /\ heap' = Append(heap, created)
    /\ hist' = Append(hist, [origin |-> kind, value |-> value,
                             seed |-> ToString(created.template),
                             log |-> <<>>, joined |-> 0])
    /\ result' = [NoCall EXCEPT !.op = "create", !.kind = kind,
                                !.target = Len(heap) + 1]
    /\ before' = Now

\* There is room for one more instance.
Room == Footprint(hist) + Cardinality({"template", "selectors"}) <= MaxFootprint

FacadeElement ==
    /\ Room
    /\ \E v \in Values : Create("element", v, cssSelectorBuilder_element(v))

FacadeId ==
    /\ Room
    /\ \E v \in Values : Create("id", v, cssSelectorBuilder_id(v))

FacadeClass ==
    /\ Room
    /\ \E v \in Values : Create("class", v, cssSelectorBuilder_class(v))

FacadeAttr ==
    /\ Room
    /\ \E v \in Values : Create("attr", v, cssSelectorBuilder_attr(v))

FacadePseudoClass ==
    /\ Room
    /\ \E v \in Values :
           Create("pseudoClass", v, cssSelectorBuilder_pseudoClass(v))

FacadePseudoElement ==
    /\ Room
    /\ \E v \in Values :
           Create("pseudoElement", v, cssSelectorBuilder_pseudoElement(v))

FacadeCombine ==
    \E s1 \in 1..Len(heap), s2 \in 1..Len(heap), c \in Combinators :
        /\ Room
        /\ heap' = cssSelectorBuilder_combine(heap, s1, c, s2)
        /\ hist' = Append(hist, [origin |-> "combine", value |-> "",
                                 seed |-> ToString(heap'[Len(heap')].template),
                                 log |-> <<>>, joined |-> 0])
        /\ result' = [NoCall EXCEPT !.op = "combine", !.target = Len(heap'),
                                    !.a = s1, !.b = s2, !.token = c]
        /\ before' = Now

FacadeStringify ==
    /\ result' = [NoCall EXCEPT !.op = "facadeStringify",
                                !.ret = cssSelectorBuilder_stringify]
    /\ before' = Now
    /\ UNCHANGED <<heap, hist>>

\* Variant: `selectors` is one set shared by all the instances.
Chain_shared(i, kind, value, r) ==
    /\ Footprint(hist) < MaxFootprint \/ r.error # NoError
    /\ heap' = [j \in 1..Len(heap) |->
                    IF j = i THEN r.self
                    ELSE [heap[j] EXCEPT !.selectors = r.self.selectors]]
    /\ hist' = IF r.error = NoError
               THEN [hist EXCEPT ![i].log =
                         Append(@, [kind |-> kind, value |-> value])]
               ELSE hist
    /\ result' = [NoCall EXCEPT !.op = "chain", !.kind = kind, !.target = i,
                                !.error = r.error]
    /\ before' = Now

\* A chained per-kind call on instance i that ended as `r`: the instance is
\* left as the method left it, also when it threw.
Chain(i, kind, value, r) ==
    /\ Footprint(hist) < MaxFootprint \/ r.error # NoError
    /\ heap' = [heap EXCEPT ![i] = r.self]
    /\ hist' = IF r.error = NoError
               THEN [hist EXCEPT ![i].log =
                         Append(@, [kind |-> kind, value |-> value])]
               ELSE hist
    /\ result' = [NoCall EXCEPT !.op = "chain", !.kind = kind, !.target = i,
                                !.error = r.error]
    /\ before' = Now

CallElement ==
    \E i \in 1..Len(heap), v \in Values : Chain(i, "element", v, element(heap[i], v))
CallId ==
    \E i \in 1..Len(heap), v \in Values : Chain(i, "id", v, id(heap[i], v))
CallClass ==
    \E i \in 1..Len(heap), v \in Values : Chain(i, "class", v, class(heap[i], v))
CallAttr ==
    \E i \in 1..Len(heap), v \in Values : Chain(i, "attr", v, attr(heap[i], v))
CallPseudoClass ==
    \E i \in 1..Len(heap), v \in Values :
        Chain(i, "pseudoClass", v, pseudoClass(heap[i], v))
CallPseudoElement ==
    \E i \in 1..Len(heap), v \in Values :
        Chain(i, "pseudoElement", v, pseudoElement(heap[i], v))

CallCombine ==
    \E i \in 1..Len(heap), args \in ArgLists :
        LET r == combine(heap[i], args)
        IN  /\ Footprint(hist) + Len(args) <= MaxFootprint
            /\ heap' = [heap EXCEPT ![i] = r.self]
            /\ hist' = [hist EXCEPT ![i].joined = @ + Len(args)]
            /\ result' = [NoCall EXCEPT !.op = "instanceCombine", !.target = i]
            /\ before' = Now

\* Variant: stringify hands the text out and leaves the instance empty.
CallStringify_consuming ==
    \E i \in 1..Len(heap) :
        /\ result' = [NoCall EXCEPT !.op = "stringify", !.target = i,
                                    !.ret = stringify(heap[i])]
        /\ before' = Now
        /\ heap' = [heap EXCEPT ![i].template = Str("")]
        /\ UNCHANGED hist

CallStringify ==
    \E i \in 1..Len(heap) :
        /\ result' = [NoCall EXCEPT !.op = "stringify", !.target = i,
                                    !.ret = stringify(heap[i])]
        /\ before' = Now
        /\ UNCHANGED <<heap, hist>>

Next ==
    \/ FacadeElement
    \/ FacadeId
    \/ FacadeClass
    \/ FacadeAttr
    \/ FacadePseudoClass
    \/ FacadePseudoElement
    \/ FacadeCombine
    \/ FacadeStringify
    \/ CallElement
    \/ CallId
    \/ CallClass
    \/ CallAttr
    \/ CallPseudoClass
    \/ CallPseudoElement
    \/ CallCombine
    \/ CallStringify

Spec == Init /\ [][Next]_vars

(***************************************************************************)
(* Vocabulary of the properties: the fixed order of the kinds, the         *)
(* fragments an instance has been given and the text each one renders to.  *)
(***************************************************************************)
KindOrder == <<"element", "id", "class", "attr", "pseudoClass", "pseudoElement">>

Rank(kind) == CHOOSE r \in 1..Len(KindOrder) : KindOrder[r] = kind

\* The instance the last call was made on, and what it held at the call.
Target == result.target
Was == before.hist[Target]

\* The kinds of the fragments of an instance, in the order they were
\* appended: the one its facade method seeded, then the accepted calls.
Fragments(h) ==
    (IF h.origin = "combine" THEN <<>> ELSE <<h.origin>>)
        \o [n \in 1..Len(h.log) |-> h.log[n].kind]

FragmentKinds(h) == {Fragments(h)[n] : n \in 1..Len(Fragments(h))}

Count(kinds, kind) == Cardinality({n \in 1..Len(kinds) : kinds[n] = kind})

HigherAppended(h, kind) == \E k \in FragmentKinds(h) : Rank(k) > Rank(kind)

\* Kinds in non-decreasing rank, element, id and pseudoElement at most once.
WellOrdered(kinds) ==
    /\ \A m, n \in 1..Len(kinds) : m < n => Rank(kinds[m]) <= Rank(kinds[n])
    /\ \A k \in {"element", "id", "pseudoElement"} : Count(kinds, k) <= 1

Rendering(kind, value) ==
    CASE kind = "element" -> value
      [] kind = "id" -> "#" \o value
      [] kind = "class" -> "." \o value
      [] kind = "attr" -> "[" \o value \o "]"
      [] kind = "pseudoClass" -> ":" \o value
      [] kind = "pseudoElement" -> "::" \o value

RECURSIVE RenderAll(_)
RenderAll(log) ==
    IF log = <<>> THEN ""
    ELSE Rendering(Head(log).kind, Head(log).value) \o RenderAll(Tail(log))

\* The text seeded at creation followed by the accepted fragments.
ExpectedText(h) ==
    (IF h.origin = "combine" THEN h.seed ELSE Rendering(h.origin, h.value))
        \o RenderAll(h.log)

\* The instance `self` after the calls of `log`, made in order.
RECURSIVE Replay(_, _)
Replay(self, log) ==
    IF log = <<>> THEN self
    ELSE Replay(Apply(self, Head(log).kind, Head(log).value).self, Tail(log))

\* Text p is the beginning of text t.
IsPrefix(p, t) == Len(p) <= Len(t) /\ SubSeq(t, 1, Len(p)) = p

ChainCall(r) == r.op = "chain"
Threw(r) == r.error # NoError

(***************************************************************************)
(* C1.  A per-kind call of kind K on an instance that already holds a      *)
(* fragment of a strictly higher rank (seeded or chained) throws           *)
(* OrderViolationError.  (A call whose own kind is already present is the  *)
(* duplicate case and is left out here.)                                   *)
(***************************************************************************)
C1_OutOfOrderThrows ==
    (/\ ChainCall(result)
     /\ HigherAppended(Was, result.kind)
     /\ result.kind \notin FragmentKinds(Was))
        => result.error = OrderViolationError

(***************************************************************************)
(* C2.  On an instance created by a per-kind facade method, the set        *)
(* `selectors` (kindsUsed) is exactly the set of kinds of the fragments    *)
(* appended to its text.                                                   *)
(***************************************************************************)
C2_KindsUsedExact ==
    \A i \in 1..Len(heap) :
        hist[i].origin # "combine" => heap[i].selectors = FragmentKinds(hist[i])

(***************************************************************************)
(* C3.  No instance, however created, ever holds more than one element     *)
(* fragment: an element call on an instance that holds one throws          *)
(* DuplicateFragmentError and appends nothing.                             *)
(***************************************************************************)
C3_ElementOnce ==
    /\ \A i \in 1..Len(heap) : Count(Fragments(hist[i]), "element") <= 1
    /\ (/\ ChainCall(result)
        /\ result.kind = "element"
        /\ "element" \in FragmentKinds(Was))
       => /\ result.error = DuplicateFragmentError
          /\ heap[Target].template = before.heap[Target].template

(***************************************************************************)
(* C4.  No instance ever holds more than one id fragment or more than one  *)
(* pseudoElement fragment: an id (pseudoElement) call on an instance that  *)
(* holds one throws DuplicateFragmentError, with its message, and appends  *)
(* nothing.                                                                *)
(***************************************************************************)
C4_IdAndPseudoElementOnce ==
    /\ \A i \in 1..Len(heap) :
           /\ Count(Fragments(hist[i]), "id") <= 1
           /\ Count(Fragments(hist[i]), "pseudoElement") <= 1
    /\ (/\ ChainCall(result)
        /\ result.kind \in {"id", "pseudoElement"}
        /\ result.kind \in FragmentKinds(Was))
       => /\ result.error =
                 "Element, id and pseudo-element should not occur more then one time inside the selector"
          /\ heap[Target].template = before.heap[Target].template

\* A second id call on an instance whose id came from a chained call was
\* rejected as a duplicate.
C4_Witness ==
    /\ ChainCall(result)
    /\ result.kind = "id"
    /\ result.error = DuplicateFragmentError
    /\ Was.origin = "element"
    /\ Fragments(Was) = <<"element", "id">>

(***************************************************************************)
(* C5.  A per-kind call that throws leaves the instance as it was: both    *)
(* template (renderedText) and selectors (kindsUsed) are unchanged.        *)
(***************************************************************************)
C5_ThrowLeavesInstance ==
    (ChainCall(result) /\ Threw(result)) => heap[Target] = before.heap[Target]

(***************************************************************************)
(* C6.  On an instance created by a per-kind facade method, a call that    *)
(* keeps the fragments in non-decreasing rank, with element, id and        *)
(* pseudoElement at most once, is accepted.                                *)
(***************************************************************************)
C6_InOrderAccepted ==
    (/\ ChainCall(result)
     /\ Was.origin # "combine"
     /\ WellOrdered(Append(Fragments(Was), result.kind)))
        => ~ Threw(result)

\* class -> class -> attr was accepted at every step.
C6_Witness ==
    /\ ChainCall(result)
    /\ ~ Threw(result)
    /\ Fragments(hist[Target]) = <<"class", "class", "attr">>

(***************************************************************************)
(* C7.  stringify() on an instance whose text only the per-kind calls      *)
(* have written returns the text seeded at creation followed, in call      *)
(* order, by the rendering of each accepted fragment.                      *)
(***************************************************************************)
C7_StringifyRendersFragments ==
    (result.op = "stringify" /\ hist[Target].joined = 0)
        => result.ret = Str(ExpectedText(hist[Target]))

\* element('a').attr('a').pseudoClass('a').stringify() returned 'a[a]:a'.
C7_Witness ==
    /\ result.op = "stringify"
    /\ Fragments(hist[Target]) = <<"element", "attr", "pseudoClass">>
    /\ result.ret = Str("a[a]:a")

(***************************************************************************)
(* C8.  The instance combine(a, token, b) returns stringifies to           *)
(* stringify(a), a space, the token as given, a space, stringify(b); when  *)
(* the operands' texts come from per-kind calls alone, that is the         *)
(* left-to-right concatenation of their parts.                             *)
(***************************************************************************)
C8_CombineText ==
    result.op = "combine" =>
        LET a == result.a
            b == result.b
            made == stringify(heap[Target])
        IN  /\ made = Str(ToString(stringify(heap[a])) \o " " \o result.token
                          \o " " \o ToString(stringify(heap[b])))
            /\ (hist[a].joined = 0 /\ hist[b].joined = 0)
               => made = Str(ExpectedText(hist[a]) \o " " \o result.token
                             \o " " \o ExpectedText(hist[b]))

\* A nested combine with the ' ' combinator: three spaces between operands.
C8_Witness ==
    /\ result.op = "combine"
    /\ result.token = " "
    /\ hist[result.b].origin = "combine"
    /\ stringify(heap[Target]) = Str("a   a + a")

(***************************************************************************)
(* C9.  The facade combine leaves every existing instance, its operands    *)
(* among them, as it was, and a later call on the combined instance        *)
(* changes no other instance.                                              *)
(***************************************************************************)
C9_CombineKeepsOperands ==
    /\ result.op = "combine"
       => \A i \in 1..Len(before.heap) : heap[i] = before.heap[i]
    /\ (/\ result.op \in {"chain", "instanceCombine"}
        /\ Was.origin = "combine")
       => \A j \in 1..Len(before.heap) : j # Target => heap[j] = before.heap[j]

\* A per-kind call on a combined instance was accepted while its operands
\* were still live.
C9_Witness ==
    /\ ChainCall(result)
    /\ ~ Threw(result)
    /\ hist[Target].origin = "combine"
    /\ result.target > 1

(***************************************************************************)
(* C10.  stringify() on the facade itself returns the empty string.        *)
(***************************************************************************)
C10_FacadeStringifyEmpty ==
    result.op = "facadeStringify" => result.ret = Str("")

(***************************************************************************)
(* C11.  stringify() on an instance is a read-only projection: it changes  *)
(* no instance, so calling it again returns the same string, and every     *)
(* per-kind call made after it ends as it would have ended without it.     *)
(***************************************************************************)
C11_StringifyReadOnly ==
    result.op = "stringify" =>
        /\ heap = before.heap
        /\ result.ret = stringify(heap[Target])
        /\ \A k \in {KindOrder[n] : n \in 1..Len(KindOrder)}, v \in Values :
               Apply(heap[Target], k, v) = Apply(before.heap[Target], k, v)

\* stringify() was called mid-construction, after id('a').class('a').
C11_Witness ==
    /\ result.op = "stringify"
    /\ Fragments(hist[Target]) = <<"id", "class">>
    /\ result.ret = Str("#a.a")
    /\ Footprint(hist) < MaxFootprint

(***************************************************************************)
(* C12.  An element, id or pseudoElement call on an instance whose         *)
(* `selectors` (kindsUsed) already holds that kind and also a kind of      *)
(* higher rank throws DuplicateFragmentError, not OrderViolationError.     *)
(***************************************************************************)
C12_DuplicateBeforeOrder ==
    (/\ ChainCall(result)
     /\ result.kind \in {"element", "id", "pseudoElement"}
     /\ result.kind \in before.heap[Target].selectors
     /\ \E k \in before.heap[Target].selectors \cap
                 {KindOrder[n] : n \in 1..Len(KindOrder)} :
            Rank(k) > Rank(result.kind))
        => result.error = DuplicateFragmentError

\* id('a').pseudoElement('a').id('a'): a duplicate that is also out of order.
C12_Witness ==
    /\ ChainCall(result)
    /\ result.kind = "id"
    /\ result.error = DuplicateFragmentError
    /\ Fragments(Was) = <<"id", "pseudoElement">>
    /\ before.heap[Target].selectors = {"id", "pseudoElement"}

(***************************************************************************)
(* C13.  Instances are isolated.  A facade per-kind call and the facade    *)
(* combine add one new instance and leave the others as they were; a call  *)
(* on an instance (per-kind, combine, stringify) adds none, acts on that   *)
(* instance and leaves every other one as it was.                          *)
(***************************************************************************)
C13_InstancesIsolated ==
    /\ result.op \in {"create", "combine"}
       => /\ Len(heap) = Len(before.heap) + 1
          /\ Target = Len(heap)
          /\ \A j \in 1..Len(before.heap) : heap[j] = before.heap[j]
    /\ result.op \in {"chain", "instanceCombine", "stringify"}
       => /\ Len(heap) = Len(before.heap)
          /\ Target \in 1..Len(heap)
          /\ \A j \in 1..Len(heap) : j # Target => heap[j] = before.heap[j]

\* Calls on two facade-made instances were interleaved: the first one took
\* a fragment after the second one had taken one.
C13_Witness ==
    /\ Len(heap) = 2
    /\ ChainCall(result)
    /\ ~ Threw(result)
    /\ Target = 1
    /\ hist[1].origin = "element"
    /\ hist[2].origin = "class"
    /\ Len(hist[2].log) = 1
    /\ heap[1].selectors # heap[2].selectors

(***************************************************************************)
(* C14.  An instance made by the facade combine inherits no kind from its  *)
(* operands: it starts with no kind in `selectors`, and a per-kind call on *)
(* it is accepted or rejected exactly as the same call is on an instance   *)
(* with no fragment that was given the same fragments afterwards.          *)
(***************************************************************************)
C14_CombinedStartsUnrestricted ==
    /\ result.op = "combine"
       => heap[Target].selectors \cap {KindOrder[n] : n \in 1..Len(KindOrder)} = {}
    /\ (ChainCall(result) /\ Was.origin = "combine")
       => \A v \in Values :
              Threw(result)
                  <=> Threw(Apply(Replay(Selector(Str(""), NoSelector), Was.log),
                                  result.kind, v))

\* class was accepted on the combination of two operands that end in a
\* pseudo-element.
C14_Witness ==
    /\ ChainCall(result)
    /\ result.kind = "class"
    /\ ~ Threw(result)
    /\ Was.origin = "combine"
    /\ Was.seed = "::a + ::a"

(***************************************************************************)
(* C15.  Rejection is repeatable: a per-kind call that threw throws the    *)
(* same error when it is made again with no accepted call in between.      *)
(***************************************************************************)
C15_RejectionRepeats ==
    (ChainCall(result) /\ Threw(result))
        => \A v \in Values : Apply(heap[Target], result.kind, v).error = result.error

(***************************************************************************)
(* C16.  pseudoElement is terminal: on an instance that holds a            *)
(* pseudoElement fragment (seeded or chained) every per-kind call throws   *)
(* and leaves the text as it was.                                          *)
(***************************************************************************)
C16_PseudoElementTerminal ==
    (ChainCall(result) /\ "pseudoElement" \in FragmentKinds(Was))
        => /\ Threw(result)
           /\ heap[Target].template = before.heap[Target].template

\* element('a').pseudoElement('a').class('a') was rejected.
C16_Witness ==
    /\ ChainCall(result)
    /\ result.kind = "class"
    /\ Threw(result)
    /\ Fragments(Was) = <<"element", "pseudoElement">>
    /\ stringify(heap[Target]) = Str("a::a")

(***************************************************************************)
(* C17.  The text of an instance only grows by appending: after a per-kind *)
(* call, stringify or the combine method of the instance, the text the     *)
(* instance had before the call is the beginning of the text it has.       *)
(***************************************************************************)
C17_TextOnlyGrows ==
    result.op \in {"chain", "stringify", "instanceCombine"}
        => IsPrefix(ToString(before.heap[Target].template),
                    ToString(heap[Target].template))

====
